---- MODULE Spec2Model ----
(***************************************************************************)
(* Model of the breadth-first, same-domain crawler of src/Milestone1.py:   *)
(* the frontier loop (queue, visited, retries, failed, page_id), the fetch *)
(* classification, and link extraction and normalisation.                  *)
(*                                                                         *)
(* A Python str is modelled as a sequence of one-character strings, so     *)
(* that URL identity is string identity, exactly as in the program.        *)
(***************************************************************************)
EXTENDS Integers, Sequences, FiniteSets, TLC

(***************************************************************************)
(* Python str builtins used by the program.                                *)
(***************************************************************************)
Upper == <<"A","B","C","D","E","F","G","H","I","J","K","L","M",
           "N","O","P","Q","R","S","T","U","V","W","X","Y","Z">>

Lower == <<"a","b","c","d","e","f","g","h","i","j","k","l","m",
           "n","o","p","q","r","s","t","u","v","w","x","y","z">>

Digits == {"0","1","2","3","4","5","6","7","8","9"}

Range(f) == {f[i] : i \in DOMAIN f}

Min(S) == CHOOSE m \in S : \A n \in S : m <= n

UpperSet == Range(Upper)

Letters == Range(Upper) \cup Range(Lower)

\* dict.get(key, default)
get(d, key, default) == IF key \in DOMAIN d THEN d[key] ELSE default

\* d[key] = value
put(d, key, value) ==
    [k \in DOMAIN d \cup {key} |-> IF k = key THEN value ELSE d[k]]

\* the orders in which list(found) may list a set
Orderings(S) ==
    {o \in [1..Cardinality(S) -> S] : \A i, j \in 1..Cardinality(S) : o[i] = o[j] => i = j}

isalpha(c) == c \in Letters

\* str.lower(), one character
lower_char(c) ==
    IF c \in UpperSet
    THEN Lower[CHOOSE i \in DOMAIN Upper : Upper[i] = c]
    ELSE c

\* str.lower()
lower(s) == IF s = <<>> THEN <<>> ELSE [i \in 1..Len(s) |-> lower_char(s[i])]

\* s[i:] and s[:i] with Python's 0-based, end-exclusive indices
slice_from(s, i) == IF i >= Len(s) THEN <<>> ELSE SubSeq(s, i + 1, Len(s))

slice_to(s, i) == IF i <= 0 THEN <<>> ELSE SubSeq(s, 1, IF i > Len(s) THEN Len(s) ELSE i)

\* str.startswith(p)
startswith(s, p) == Len(s) >= Len(p) /\ slice_to(s, Len(p)) = p

\* str.find(c, start): 0-based index of the first c at or after start, -1 if none
RECURSIVE find(_, _, _)
find(s, c, start) ==
    IF start >= Len(s) THEN -1
    ELSE IF s[start + 1] = c THEN start
    ELSE find(s, c, start + 1)

\* c in s
contains(s, c) == find(s, c, 0) >= 0

\* str.rstrip(c)
RECURSIVE rstrip(_, _)
rstrip(s, c) ==
    IF s # <<>> /\ s[Len(s)] = c THEN rstrip(slice_to(s, Len(s) - 1), c) ELSE s

\* str.lstrip(c)
RECURSIVE lstrip(_, _)
lstrip(s, c) ==
    IF s # <<>> /\ s[1] = c THEN lstrip(slice_from(s, 1), c) ELSE s

\* str.strip(): whitespace is the blank here
strip(s) == rstrip(lstrip(s, " "), " ")

\* str.split(c): the pieces between the occurrences of c
RECURSIVE split(_, _)
split(s, c) ==
    LET i == find(s, c, 0)
    IN  IF i < 0 THEN <<s>>
        ELSE <<slice_to(s, i)>> \o split(slice_from(s, i + 1), c)

\* c.join(parts)
RECURSIVE join(_, _)
join(parts, c) ==
    IF parts = <<>> THEN <<>>
    ELSE IF Len(parts) = 1 THEN parts[1]
    ELSE parts[1] \o <<c>> \o join(Tail(parts), c)

(***************************************************************************)
(* urllib.parse, as called by get_domain and extract_links.                *)
(***************************************************************************)
scheme_chars == Letters \cup Digits \cup {"+", "-", "."}

HTTP == <<"h","t","t","p">>

HTTPS == <<"h","t","t","p","s">>

FTP == <<"f","t","p">>

\* the schemes of uses_relative and of uses_netloc that the alphabet can spell
uses_relative == {<<>>, HTTP, HTTPS, FTP}

uses_netloc == {<<>>, HTTP, HTTPS, FTP}

\* _splitnetloc(url, 2): the position of the earliest of "/", "?", "#" from 2 on
netloc_end(rest) ==
    LET D == {find(rest, c, 2) : c \in {"/", "?", "#"}} \ {-1}
    IN  IF D = {} THEN Len(rest) ELSE Min(D)

\* urlparse(url, scheme), the steps of urlsplit in their order: scheme,
\* netloc, fragment, query; params stay empty, no ";" being handled
urlparse(url0, scheme0) ==
    LET with_query(scheme, netloc, url4, fragment, q) ==
            [scheme |-> scheme, netloc |-> netloc,
             path |-> IF q >= 0 THEN slice_to(url4, q) ELSE url4,
             query |-> IF q >= 0 THEN slice_from(url4, q + 1) ELSE <<>>,
             fragment |-> fragment]
        split_query(scheme, netloc, url4, fragment) ==
            with_query(scheme, netloc, url4, fragment, find(url4, "?", 0))
        with_fragment(scheme, netloc, url3, f) ==
            split_query(scheme, netloc,
                        IF f >= 0 THEN slice_to(url3, f) ELSE url3,
                        IF f >= 0 THEN slice_from(url3, f + 1) ELSE <<>>)
        split_fragment(scheme, netloc, url3) ==
            with_fragment(scheme, netloc, url3, find(url3, "#", 0))
        with_netloc(scheme, url2, has_netloc, delim) ==
            split_fragment(scheme,
                           IF has_netloc THEN SubSeq(url2, 3, delim) ELSE <<>>,
                           IF has_netloc THEN slice_from(url2, delim) ELSE url2)
        split_netloc(scheme, url2) ==
            with_netloc(scheme, url2, slice_to(url2, 2) = <<"/", "/">>, netloc_end(url2))
        with_scheme(url1, i, has_scheme) ==
            split_netloc(IF has_scheme THEN lower(slice_to(url1, i)) ELSE scheme0,
                         IF has_scheme THEN slice_from(url1, i + 1) ELSE url1)
        split_scheme(url1, i) ==
            with_scheme(url1, i, /\ i > 0
                                 /\ isalpha(url1[1])
                                 /\ \A k \in 1..i : url1[k] \in scheme_chars)
        stripped(url1) == split_scheme(url1, find(url1, ":", 0))
    IN  stripped(lstrip(url0, " "))

\* ParseResult.geturl(), i.e. urlunparse: the parts put together again
geturl(p) ==
    (IF p.scheme # <<>> THEN p.scheme \o <<":">> ELSE <<>>)
    \o (IF \/ p.netloc # <<>>
           \/ (p.scheme # <<>> /\ p.scheme \in uses_netloc
               /\ slice_to(p.path, 2) # <<"/", "/">>)
        THEN <<"/", "/">> \o p.netloc
             \o (IF p.path # <<>> /\ p.path[1] # "/" THEN <<"/">> ELSE <<>>)
        ELSE <<>>)
    \o p.path
    \o (IF p.query # <<>> THEN <<"?">> \o p.query ELSE <<>>)
    \o (IF p.fragment # <<>> THEN <<"#">> \o p.fragment ELSE <<>>)

\* get_domain: the lower-cased netloc
get_domain(u) == lower(urlparse(u, <<>>).netloc)

\* the loop of urljoin that resolves "." and ".." segments
RECURSIVE resolve_segments(_, _)
resolve_segments(segments, resolved_path) ==
    IF segments = <<>> THEN resolved_path
    ELSE LET seg == Head(segments)
         IN  IF seg = <<".", ".">>
             THEN resolve_segments(Tail(segments),
                      IF resolved_path = <<>> THEN <<>>
                      ELSE slice_to(resolved_path, Len(resolved_path) - 1))
             ELSE IF seg = <<".">>
             THEN resolve_segments(Tail(segments), resolved_path)
             ELSE resolve_segments(Tail(segments), Append(resolved_path, seg))

\* segments[1:-1] = filter(None, segments[1:-1])
filter_middle(segments) ==
    IF Len(segments) <= 2 THEN segments
    ELSE <<segments[1]>>
         \o SelectSeq(SubSeq(segments, 2, Len(segments) - 1), LAMBDA x : x # <<>>)
         \o <<segments[Len(segments)]>>

\* urljoin(base, url): ref is the url argument
urljoin(base, ref) ==
    LET unparse(u, netloc, joined) ==
            geturl([scheme |-> u.scheme, netloc |-> netloc,
                    path |-> IF joined = <<>> THEN <<"/">> ELSE joined,
                    query |-> u.query, fragment |-> u.fragment])
        resolved(u, netloc, segments, resolved0) ==
            unparse(u, netloc,
                    join(IF segments[Len(segments)] \in {<<".">>, <<".", ".">>}
                         THEN Append(resolved0, <<>>) ELSE resolved0, "/"))
        resolve(u, netloc, segments) ==
            resolved(u, netloc, segments, resolve_segments(segments, <<>>))
        with_base_parts(u, netloc, bp) ==
            resolve(u, netloc,
                    IF u.path[1] = "/" THEN split(u.path, "/")
                    ELSE filter_middle(
                             (IF bp[Len(bp)] # <<>> THEN slice_to(bp, Len(bp) - 1) ELSE bp)
                             \o split(u.path, "/")))
        with_netloc(b, u, netloc) ==
            IF u.path = <<>>
            THEN geturl([scheme |-> u.scheme, netloc |-> netloc, path |-> b.path,
                         query |-> IF u.query = <<>> THEN b.query ELSE u.query,
                         fragment |-> u.fragment])
            ELSE with_base_parts(u, netloc, split(b.path, "/"))
        parsed(b, u) ==
            IF u.scheme # b.scheme \/ u.scheme \notin uses_relative THEN ref
            ELSE IF u.scheme \in uses_netloc /\ u.netloc # <<>> THEN geturl(u)
            ELSE with_netloc(b, u, IF u.scheme \in uses_netloc THEN b.netloc ELSE u.netloc)
        with_base(b) == parsed(b, urlparse(ref, b.scheme))
    IN  IF base = <<>> THEN ref
        ELSE IF ref = <<>> THEN base
        ELSE with_base(urlparse(base, <<>>))

(***************************************************************************)
(* extract_links: the href values of a page, cleaned and made absolute.    *)
(* A page body is modelled as the set of strings the href pattern          *)
(* captures in it; the result is the set found, which the caller lists in  *)
(* an arbitrary order.                                                     *)
(***************************************************************************)
NonNavigational ==
    { <<"#">>,
      <<"m","a","i","l","t","o",":">>,
      <<"j","a","v","a","s","c","r","i","p","t",":">>,
      <<"t","e","l",":">> }

\* lines 76-83: absolute URL, fragment removed, trailing slashes removed
abs_link(link, base_url) ==
    rstrip(geturl([urlparse(urljoin(base_url, link), <<>>) EXCEPT !.fragment = <<>>]), "/")

\* line 86: only http and https links are kept
is_http(abs_url) ==
    \/ startswith(abs_url, HTTP \o <<":", "/", "/">>)
    \/ startswith(abs_url, HTTPS \o <<":", "/", "/">>)

\* the pass that keeps only the links written with their scheme
found_of_absolute(raw, base_url) ==
    LET add(abs) == IF is_http(abs) THEN {abs} ELSE {}
        pass(link) ==
            IF link = <<>> THEN {}
            ELSE IF \E p \in NonNavigational : startswith(link, p) THEN {}
            ELSE add(rstrip(link, "/"))
    IN  pass(strip(raw))

\* one pass of the for loop over raw_links: what the link adds to found
found_of(raw, base_url) ==
    LET add(abs) == IF is_http(abs) THEN {abs} ELSE {}
        pass(link) ==
            IF link = <<>> THEN {}
            ELSE IF \E p \in NonNavigational : startswith(link, p) THEN {}
            ELSE add(abs_link(link, base_url))
    IN  pass(strip(raw))

(***************************************************************************)
(* The run's inputs.                                                       *)
(***************************************************************************)
\* seed_url, with its trailing slash as in the program's own seed
seed_url == HTTP \o <<":", "/", "/", "a", "/">>

seed_domain == get_domain(seed_url)

\* href values that pages of the crawled site hold: absolute ones on any
\* page, relative ones on the pages whose host is spelled as in the seed
AbsoluteHrefs ==
    { <<"#", "t">>,                                       \* non-navigational
      seed_url,                                           \* the seed itself
      HTTP \o <<":", "/", "/", "A", "/", "y", "/">>,      \* same domain, other case
      HTTP \o <<":", "/", "/", "b", "/", "z">> }          \* another domain

RelativeHrefs == { <<"/", "x">> }

Hrefs == AbsoluteHrefs \cup RelativeHrefs

PageHrefs(u) ==
    IF urlparse(u, <<>>).netloc = urlparse(seed_url, <<>>).netloc THEN Hrefs ELSE AbsoluteHrefs

\* the URLs the loop can come to fetch: the seed and what extraction from
\* fetched pages adds, filtered by domain as the loop filters
RECURSIVE Reach(_)
Reach(S) ==
    LET grown(T) == IF T = S THEN S ELSE Reach(T)
    IN  grown(S \cup {l \in UNION {UNION {found_of(raw, u) : raw \in PageHrefs(u)} : u \in S} :
                         get_domain(l) = seed_domain})

Targets == Reach({rstrip(seed_url, "/")})

\* found_of, worked out once for the pages of the site
found_table == [u \in Targets |-> [raw \in Hrefs |-> found_of(raw, u)]]

found(raw, base_url) ==
    IF base_url \in Targets /\ raw \in Hrefs THEN found_table[base_url][raw]
    ELSE found_of(raw, base_url)

extract_links(body, base_url) == UNION {found(raw, base_url) : raw \in body}

\* get_domain, worked out once for the links of the site
domain_table ==
    [l \in UNION {found_of(p[2], p[1]) : p \in Targets \X Hrefs}
        |-> get_domain(l)]

domain_of(u) == get(domain_table, u, get_domain(u))

(***************************************************************************)
(* fetch_page: one requests.get call, classified.  What the call delivers  *)
(* is either a response (status code and body text) or a                   *)
(* RequestException.  None is the empty tuple, a body text t is <<t>>.     *)
(***************************************************************************)
None == <<>>

\* fetch_page with 600 counted among the server errors
fetch_page_600_transient(response) ==
    IF response.raised THEN <<None, "transient">>
    ELSE IF response.status_code = 200 THEN <<(<<response.text>>), "ok">>
    ELSE IF 500 <= response.status_code /\ response.status_code <= 600
    THEN <<None, "transient">>
    ELSE <<None, "permanent">>

\* lines 34-55: what fetch_page returns for what requests.get delivered
fetch_page(response) ==
    IF response.raised THEN <<None, "transient">>
    ELSE IF response.status_code = 200 THEN <<(<<response.text>>), "ok">>
    ELSE IF 500 <= response.status_code /\ response.status_code < 600
    THEN <<None, "transient">>
    ELSE <<None, "permanent">>

(***************************************************************************)
(* Bounds of the runs checked.                                             *)
(***************************************************************************)
\* most href values on one page
MaxLinks == 3

\* largest page budget and retry limit a run is configured with
MaxPagesCfg == 5

MaxRetriesCfg == 3

\* the bodies the site may serve for a URL
page_table == [u \in Targets |-> {h \in SUBSET PageHrefs(u) : Cardinality(h) <= MaxLinks}]

Bodies(u) ==
    get(page_table, u, {h \in SUBSET AbsoluteHrefs : Cardinality(h) <= MaxLinks})

\* status codes a server of the crawled site answers with
StatusCodes == {200, 301, 404, 500, 503}

\* what requests.get delivers: a page of the site with 200, a body without
\* href values with any other status code, or a RequestException
Responses(u) ==
    [raised : {FALSE}, status_code : {200}, text : Bodies(u)]
    \cup [raised : {FALSE}, status_code : StatusCodes \ {200}, text : {{}}]
    \cup [raised : {TRUE}, status_code : {0}, text : {{}}]

VARIABLES
    max_pages,      \* the page budget (line 92)
    max_retries,    \* the retry limit (line 93)
    queue,          \* BFS queue (line 101)
    visited,        \* visited URLs, ordered (line 102)
    visited_set,    \* the same, as a set (line 103)
    retries,        \* retry count per URL (line 104)
    failed,         \* failed URLs (line 105)
    page_id,        \* file counter (line 106)
    url,            \* the URL taken from the queue last (line 115)
    html,           \* what fetch_page returned last (line 122)
    status,
    server,         \* the responses prepared for the requests to come
    requests_sent,  \* calls of requests.get made so far (line 37)
    visited_file,   \* pages/visited.txt: times written, and its lines
    pages,          \* pages/<id>.html: per id, the URL whose html the file holds
    write_errors,   \* the URLs whose page file could not be written (line 129)
    href,           \* a captured href value given to the normalisation steps
    normalized,     \* what the normalisation steps gave, applied once and again
    pc,             \* "loop" while the crawl loop runs, "done" after the summary
    fetch_log       \* per URL, the status of each fetch_page call made for it

vars == <<max_pages, max_retries, queue, visited, visited_set, retries, failed,
          page_id, url, html, status, server, requests_sent, visited_file, pages,
          write_errors, href, normalized, pc, fetch_log>>

Init ==
    /\ max_pages \in 1..MaxPagesCfg
    /\ max_retries \in 0..MaxRetriesCfg
    /\ queue = <<rstrip(seed_url, "/")>>
    /\ visited = <<>>
    /\ visited_set = {}
    /\ retries = <<>>
    /\ failed = {}
    /\ page_id = 1
    /\ url = None
    /\ html = None
    /\ status = ""
    /\ server = <<>>
    /\ requests_sent = 0
    /\ visited_file = [writes |-> 0, lines |-> <<>>]
    /\ pages = <<>>
    /\ write_errors = {}
    /\ href = <<>>
    /\ normalized = <<>>
    /\ pc = "loop"
    /\ fetch_log = <<>>

\* the for loop over links without the visited_set test of line 142
RECURSIVE enqueue_links_unvisited_unchecked(_, _, _)
enqueue_links_unvisited_unchecked(q, links, seen) ==
    IF links = <<>> THEN q
    ELSE LET link == Head(links)
         IN  IF domain_of(link) # seed_domain
             THEN enqueue_links_unvisited_unchecked(q, Tail(links), seen)
             ELSE IF link \notin Range(q)
             THEN enqueue_links_unvisited_unchecked(Append(q, link), Tail(links), seen)
             ELSE enqueue_links_unvisited_unchecked(q, Tail(links), seen)

\* the for loop over links without the queue test of line 142
RECURSIVE enqueue_links_queue_unchecked(_, _, _)
enqueue_links_queue_unchecked(q, links, seen) ==
    IF links = <<>> THEN q
    ELSE LET link == Head(links)
         IN  IF domain_of(link) # seed_domain
             THEN enqueue_links_queue_unchecked(q, Tail(links), seen)
             ELSE IF link \notin seen
             THEN enqueue_links_queue_unchecked(Append(q, link), Tail(links), seen)
             ELSE enqueue_links_queue_unchecked(q, Tail(links), seen)

\* the for loop over links without the domain test of lines 140-141
RECURSIVE enqueue_links_any_domain(_, _, _)
enqueue_links_any_domain(q, links, seen) ==
    IF links = <<>> THEN q
    ELSE LET link == Head(links)
         IN  IF link \notin seen /\ link \notin Range(q)
             THEN enqueue_links_any_domain(Append(q, link), Tail(links), seen)
             ELSE enqueue_links_any_domain(q, Tail(links), seen)

\* lines 139-143: the for loop over links
RECURSIVE enqueue_links(_, _, _)
enqueue_links(q, links, seen) ==
    IF links = <<>> THEN q
    ELSE LET link == Head(links)
         IN  IF domain_of(link) # seed_domain
             THEN enqueue_links(q, Tail(links), seen)
             ELSE IF link \notin seen /\ link \notin Range(q)
             THEN enqueue_links(Append(q, link), Tail(links), seen)
             ELSE enqueue_links(q, Tail(links), seen)

\* Case 1 without line 135: visited_set is not kept up
Success_set_unmaintained(u, q, text) ==
    /\ pages' = put(pages, page_id, u)
    /\ page_id' = page_id + 1
    /\ visited' = Append(visited, u)
    /\ \E links \in Orderings(extract_links(text, u)) :
           queue' = enqueue_links(q, links, visited_set)
    /\ UNCHANGED <<visited_set, retries, failed>>

\* Case 1 with the URL put at the front of visited
Success_prepended(u, q, text) ==
    /\ pages' = put(pages, page_id, u)
    /\ page_id' = page_id + 1
    /\ visited' = <<u>> \o visited
    /\ visited_set' = visited_set \cup {u}
    /\ \E links \in Orderings(extract_links(text, u)) :
           queue' = enqueue_links(q, links, visited_set \cup {u})
    /\ UNCHANGED <<retries, failed>>

\* lines 125-143: Case 1, successful fetch
Success(u, q, text) ==
    /\ pages' = put(pages, page_id, u)
    /\ page_id' = page_id + 1
    /\ visited' = Append(visited, u)
    /\ visited_set' = visited_set \cup {u}
    /\ \E links \in Orderings(extract_links(text, u)) :
           queue' = enqueue_links(q, links, visited_set \cup {u})
    /\ UNCHANGED <<retries, failed>>

\* the retry test with < for <=
may_retry_strict(count) == count < max_retries

\* the retry test allowing one retry more
may_retry_one_more(count) == count <= max_retries + 1

\* line 148: whether a transient failure is retried
may_retry(count) == count <= max_retries

\* Case 2 without line 149: the retry is not counted
Transient_uncounted(u, q) ==
    /\ queue' = Append(q, u)
    /\ UNCHANGED <<retries, failed, page_id, pages, visited, visited_set>>

\* Case 2 with the retried URL put at the front of the queue
Transient_front(u, q) ==
    LET count == get(retries, u, 0) + 1
    IN  /\ IF may_retry(count)
           THEN /\ retries' = put(retries, u, count)
                /\ queue' = <<u>> \o q
                /\ UNCHANGED failed
           ELSE /\ failed' = failed \cup {u}
                /\ queue' = q
                /\ UNCHANGED retries
        /\ UNCHANGED <<page_id, pages, visited, visited_set>>

\* lines 146-155: Case 2, transient failure
Transient(u, q) ==
    LET count == get(retries, u, 0) + 1
    IN  /\ IF may_retry(count)
           THEN /\ retries' = put(retries, u, count)
                /\ queue' = Append(q, u)
                /\ UNCHANGED failed
           ELSE /\ failed' = failed \cup {u}
                /\ queue' = q
                /\ UNCHANGED retries
        /\ UNCHANGED <<page_id, pages, visited, visited_set>>

\* Case 3 putting the URL back in the queue, as Case 2 does
Permanent_requeued(u, q) ==
    /\ failed' = failed \cup {u}
    /\ queue' = Append(q, u)
    /\ UNCHANGED <<retries, page_id, pages, visited, visited_set>>

\* Case 3 using up a page id
Permanent_page_counted(u, q) ==
    /\ failed' = failed \cup {u}
    /\ queue' = q
    /\ page_id' = page_id + 1
    /\ UNCHANGED <<retries, pages, visited, visited_set>>

\* lines 158-160: Case 3, permanent failure
Permanent(u, q) ==
    /\ failed' = failed \cup {u}
    /\ queue' = q
    /\ UNCHANGED <<retries, page_id, pages, visited, visited_set>>

\* the loop condition with <= for <
loop_condition_inclusive == queue # <<>> /\ Len(visited) <= max_pages

\* line 112: the loop condition
loop_condition == queue # <<>> /\ Len(visited) < max_pages

\* lines 112-163: one pass of the main crawling loop
LoopBody ==
    /\ pc = "loop"
    /\ loop_condition
    /\ LET u == Head(queue)
           q == Tail(queue)
       IN  /\ url' = u
           /\ IF u \in visited_set
              THEN /\ queue' = q
                   /\ UNCHANGED <<visited, visited_set, retries, failed, page_id,
                                   pages, html, status, requests_sent, fetch_log>>
              ELSE \E response \in Responses(u) :
                     LET fetched == fetch_page(response)
                     IN  /\ html' = fetched[1]
                         /\ status' = fetched[2]
                         /\ requests_sent' = requests_sent + 1
                         /\ fetch_log' = put(fetch_log, u,
                                              Append(get(fetch_log, u, <<>>), fetched[2]))
                         /\ IF fetched[2] = "ok" /\ fetched[1] # None
                            THEN Success(u, q, fetched[1][1])
                            ELSE IF fetched[2] = "transient" THEN Transient(u, q)
                            ELSE Permanent(u, q)
    /\ UNCHANGED <<max_pages, max_retries, server, visited_file, write_errors,
                   href, normalized, pc>>

\* the manifest written whether or not the loop has ended
Finish_early ==
    /\ pc = "loop"
    /\ visited_file' = [writes |-> visited_file.writes + 1, lines |-> visited]
    /\ pc' = "done"
    /\ UNCHANGED <<max_pages, max_retries, queue, visited, visited_set, retries,
                   failed, page_id, url, html, status, server, requests_sent,
                   pages, write_errors, href, normalized, fetch_log>>

\* lines 167-182: the manifest is written and the summary printed
Finish ==
    /\ pc = "loop"
    /\ ~loop_condition
    /\ visited_file' = [writes |-> visited_file.writes + 1, lines |-> visited]
    /\ pc' = "done"
    /\ UNCHANGED <<max_pages, max_retries, queue, visited, visited_set, retries,
                   failed, page_id, url, html, status, server, requests_sent,
                   pages, write_errors, href, normalized, fetch_log>>

Next == LoopBody \/ Finish

Spec == Init /\ [][Next]_vars

\* the loop runs on while it can: the program is sequential and never blocks
FairSpec == Spec /\ WF_vars(Next)

(***************************************************************************)
(* The crawl on a disk whose writes can fail.  Lines 128-130 open and      *)
(* write pages/<id>.html outside any try block: an OSError raised there    *)
(* is not caught and ends the script at that line.                         *)
(***************************************************************************)
\* lines 112-130: a pass of the loop whose fetch succeeds and whose page
\* write raises OSError; the file may or may not have been created
WriteFails ==
    /\ pc = "loop"
    /\ loop_condition
    /\ LET u == Head(queue)
           q == Tail(queue)
       IN  /\ u \notin visited_set
           /\ \E response \in Responses(u) :
                LET fetched == fetch_page(response)
                IN  /\ fetched[2] = "ok" /\ fetched[1] # None
                    /\ url' = u
                    /\ queue' = q
                    /\ html' = fetched[1]
                    /\ status' = fetched[2]
                    /\ requests_sent' = requests_sent + 1
                    /\ fetch_log' = put(fetch_log, u,
                                         Append(get(fetch_log, u, <<>>), fetched[2]))
                    /\ write_errors' = write_errors \cup {u}
                    /\ pages' \in {pages, put(pages, page_id, u)}
    /\ pc' = "crashed"
    /\ UNCHANGED <<max_pages, max_retries, visited, visited_set, retries, failed,
                   page_id, server, visited_file, href, normalized>>

NextDisk == LoopBody \/ WriteFails \/ Finish

SpecDisk == Init /\ [][NextDisk]_vars

(***************************************************************************)
(* fetch_page on its own: one call, against a server whose answers to the  *)
(* requests to come are given.                                             *)
(***************************************************************************)
MaxRequests == 2

\* status codes on both sides of every limit fetch_page tests
FetchStatusCodes == {199, 200, 201, 301, 404, 499, 500, 503, 599, 600}

FetchResponses ==
    [raised : {FALSE}, status_code : FetchStatusCodes, text : {{}, {<<"/", "x">>}}]
    \cup [raised : {TRUE}, status_code : {0}, text : {{}}]

InitFetch ==
    /\ server \in UNION {[1..n -> FetchResponses] : n \in 1..MaxRequests}
    /\ requests_sent = 0
    /\ url = seed_url
    /\ html = None
    /\ status = ""
    /\ pc = "fetch_page"
    /\ max_pages = MaxPagesCfg
    /\ max_retries = MaxRetriesCfg
    /\ queue = <<>>
    /\ visited = <<>>
    /\ visited_set = {}
    /\ retries = <<>>
    /\ failed = {}
    /\ page_id = 1
    /\ visited_file = [writes |-> 0, lines |-> <<>>]
    /\ pages = <<>>
    /\ write_errors = {}
    /\ href = <<>>
    /\ normalized = <<>>
    /\ fetch_log = <<>>

\* lines 34-55: the call html, status = fetch_page(url); the request of
\* line 37 is answered by the server's next response
FetchPage ==
    /\ pc = "fetch_page"
    /\ requests_sent < Len(server)
    /\ LET fetched == fetch_page(server[requests_sent + 1])
       IN  /\ html' = fetched[1]
           /\ status' = fetched[2]
    /\ requests_sent' = requests_sent + 1
    /\ pc' = "returned"
    /\ UNCHANGED <<max_pages, max_retries, queue, visited, visited_set, retries,
                   failed, page_id, url, server, visited_file, pages, write_errors,
                   href, normalized, fetch_log>>

NextFetch == FetchPage

SpecFetch == InitFetch /\ [][NextFetch]_vars

(***************************************************************************)
(* The normalisation steps of extract_links on their own: one href value   *)
(* of a page is put through lines 66-87, and the URL this gives is put     *)
(* through them again, as happens when a page links to a URL in the form   *)
(* an earlier pass has given it.                                           *)
(***************************************************************************)
MaxTail == 3

\* the characters that the steps treat differently, and a plain one
TailChars == {"/", "?", "#", ".", "x"}

Tails == UNION {[1..n -> TailChars] : n \in 0..MaxTail}

\* href values: relative ones, and absolute ones of the seed's site
NormalizeHrefs == {prefix \o tail : prefix \in {<<>>, rstrip(seed_url, "/")}, tail \in Tails}

\* the pages the href value stands on
NormalizeBases == {rstrip(seed_url, "/"), seed_url \o <<"p", "/", "q">>}

InitNormalize ==
    /\ url \in NormalizeBases
    /\ href \in NormalizeHrefs
    /\ normalized = <<>>
    /\ pc = "extract_links"
    /\ html = None
    /\ status = ""
    /\ server = <<>>
    /\ requests_sent = 0
    /\ max_pages = MaxPagesCfg
    /\ max_retries = MaxRetriesCfg
    /\ queue = <<>>
    /\ visited = <<>>
    /\ visited_set = {}
    /\ retries = <<>>
    /\ failed = {}
    /\ page_id = 1
    /\ visited_file = [writes |-> 0, lines |-> <<>>]
    /\ pages = <<>>
    /\ write_errors = {}
    /\ fetch_log = <<>>

\* lines 65-87: one pass of the for loop, on the href value the first time
\* and on the URL the pass before has given after that
Normalize ==
    /\ pc = "extract_links"
    /\ Len(normalized) < 2
    /\ LET added(out) ==
               IF out = {}
               THEN /\ pc' = "skipped"
                    /\ UNCHANGED normalized
               ELSE /\ normalized' = Append(normalized, CHOOSE a \in out : TRUE)
                    /\ pc' = pc
       IN  added(found_of(IF normalized = <<>> THEN href ELSE normalized[Len(normalized)],
                          url))
    /\ UNCHANGED <<max_pages, max_retries, queue, visited, visited_set, retries,
                   failed, page_id, url, html, status, server, requests_sent,
                   visited_file, pages, write_errors, href, fetch_log>>

NextNormalize == Normalize

SpecNormalize == InitNormalize /\ [][NextNormalize]_vars

(***************************************************************************)
(* The properties checked.                                                 *)
(***************************************************************************)
\* the first entry of the queue: the seed without its trailing slash
seed_target == rstrip(seed_url, "/")

\* C1: at every point during and after the run, whatever the fetch outcomes,
\* no more than max_pages URLs are in visited.
C1_VisitedWithinBudget == Len(visited) <= max_pages

\* the budget is reached while the loop still has queued work
C1_Witness ==
    /\ pc = "loop"
    /\ Len(visited) = max_pages
    /\ queue # <<>>

\* C2: between loop iterations no URL is both visited and queued, whatever the
\* links of the pages and the fetch outcomes, retries and self-links included.
C2_VisitedNotQueued ==
    /\ Range(queue) \cap visited_set = {}
    /\ Range(queue) \cap Range(visited) = {}

\* a page that links to itself and to the seed has been visited after a
\* retry, while another URL waits in the queue
C2_Witness ==
    /\ status = "ok"
    /\ url # seed_target
    /\ url \in DOMAIN retries
    /\ {url, seed_target} \subseteq extract_links(html[1], url)
    /\ url \in visited_set
    /\ queue # <<>>

\* C3: every URL is in at most one of queue, visited and failed.
C3_AtMostOneContainer ==
    \A t \in Targets :
        /\ ~(t \in Range(queue) /\ t \in failed)
        /\ ~(t \in visited_set /\ t \in failed)
        /\ ~(t \in Range(queue) /\ t \in visited_set)

\* n transient classifications in a row and nothing else
AllTransient(n) == [i \in 1..n |-> "transient"]

\* C4 as stated: a target whose fetches were max_retries transient failures
\* and no success is failed and no longer queued.
C4_FailedAfterMaxRetries ==
    \A t \in DOMAIN fetch_log :
        (max_retries >= 1 /\ fetch_log[t] = AllTransient(max_retries))
            => (t \in failed /\ t \notin Range(queue))

\* C4 as the program has it: a target whose fetches were n transient failures
\* and nothing else is, for n <= max_retries, back in the queue with n
\* retries recorded and not failed; it is failed from the (max_retries+1)-th
\* transient failure on; no retry count ever exceeds max_retries.
C4_FailedAfterOneMoreThanMaxRetries ==
    /\ \A t \in DOMAIN fetch_log :
          LET n == Len(fetch_log[t])
          IN  fetch_log[t] = AllTransient(n) =>
                IF n <= max_retries
                THEN /\ t \in Range(queue)
                     /\ t \notin failed
                     /\ get(retries, t, 0) = n
                ELSE /\ t \in failed
                     /\ get(retries, t, 0) = max_retries
    /\ \A t \in DOMAIN retries : retries[t] <= max_retries

\* a target has just failed on its (max_retries+1)-th transient failure
C4_Witness ==
    /\ max_retries >= 1
    /\ status = "transient"
    /\ url \in failed
    /\ url \in DOMAIN fetch_log
    /\ fetch_log[url] = AllTransient(max_retries + 1)
    /\ url \notin Range(queue)

\* C5: with max_retries = 3, a target that failed transiently three times is
\* still queued and not failed, and once its fourth fetch succeeds it is
\* visited and not failed, to the end of the run.
C5_VisitedAfterThreeTransients ==
    max_retries = 3 =>
        \A t \in DOMAIN fetch_log :
            /\ fetch_log[t] = AllTransient(3)
                  => (t \in Range(queue) /\ t \notin failed)
            /\ fetch_log[t] = Append(AllTransient(3), "ok")
                  => (t \in visited_set /\ t \in Range(visited) /\ t \notin failed)

\* the run has ended with such a target in the manifest
C5_Witness ==
    /\ pc = "done"
    /\ max_retries = 3
    /\ \E t \in DOMAIN fetch_log :
          /\ fetch_log[t] = Append(AllTransient(3), "ok")
          /\ t \in Range(visited_file.lines)
          /\ t \notin failed

\* C6: the loop step in which a fetch is classified permanent adds the target
\* to failed, does not put it back in the queue and leaves retries unchanged.
C6_PermanentFailsAtOnce ==
    [][\A t \in Targets :
          get(fetch_log', t, <<>>) = Append(get(fetch_log, t, <<>>), "permanent")
              => /\ t \in failed'
                 /\ t \notin Range(queue')
                 /\ t \notin visited_set'
                 /\ retries' = retries]_vars

\* a target failed on a permanent classification of its first fetch, with no
\* retry recorded for it
C6_Witness ==
    /\ status = "permanent"
    /\ url \in failed
    /\ fetch_log[url] = <<"permanent">>
    /\ url \notin DOMAIN retries
    /\ url \notin Range(queue)

RECURSIVE RetriesLeft(_)
RetriesLeft(S) ==
    IF S = {} THEN 0
    ELSE LET t == CHOOSE x \in S : TRUE
         IN  (max_retries - get(retries, t, 0)) + RetriesLeft(S \ {t})

\* what the loop can still do: pages not yet visited, retries not yet used,
\* queue entries not yet taken
Rank ==
    (Cardinality(Targets) - Len(visited)) * (Cardinality(Targets) + 1)
    + RetriesLeft(Targets) + Len(queue)

\* only the seed has been fetched, with success, and its page has no links
SeedAloneFetched ==
    /\ DOMAIN fetch_log = {seed_target}
    /\ fetch_log[seed_target] = <<"ok">>
    /\ extract_links(html[1], url) = {}

\* C7: for every budget, retry limit, site and sequence of fetch outcomes
\* the loop ends and the manifest and summary step is reached: every pass
\* of the loop lowers Rank, which never goes below 0; and a seed fetched
\* with success and without links leaves the queue empty and visited = [seed].
C7_Terminates ==
    /\ <>(pc = "done")
    /\ [][pc' = "loop" => Rank' < Rank]_vars
    /\ [](Rank >= 0)
    /\ [](SeedAloneFetched =>
            /\ queue = <<>>
            /\ visited = <<seed_target>>
            /\ ~loop_condition)

\* the run of the seed alone has ended
C7_Witness ==
    /\ pc = "done"
    /\ SeedAloneFetched
    /\ queue = <<>>
    /\ visited = <<seed_target>>
    /\ visited_file = [writes |-> 1, lines |-> <<seed_target>>]

\* the seed page of the scenario: two links of the seed's domain, one of
\* another domain
SeedBody ==
    { <<"/", "x">>,
      HTTP \o <<":", "/", "/", "A", "/", "y", "/">>,
      HTTP \o <<":", "/", "/", "b", "/", "z">> }

SameDomainLinks ==
    { HTTP \o <<":", "/", "/", "a", "/", "x">>,
      HTTP \o <<":", "/", "/", "A", "/", "y">> }

CrossDomainLink == HTTP \o <<":", "/", "/", "b", "/", "z">>

\* the seed has just been fetched with 200 and the scenario's page, the
\* budget being 5
AfterSeed ==
    /\ max_pages = 5
    /\ url = seed_target
    /\ status = "ok"
    /\ html = <<SeedBody>>
    /\ fetch_log = (seed_target :> <<"ok">>)

\* every fetch made so far was the first for its URL and returned 200
AllOk == \A t \in DOMAIN fetch_log : fetch_log[t] = <<"ok">>

\* C8: in the scenario (seed with two same-domain links and one cross-domain
\* link, every page answering 200, max_pages = 5) the cross-domain link is
\* never queued, the visited and queued URLs are at all times the seed
\* followed by the two same-domain links in the order they were queued in,
\* and the run ends with these 3 URLs visited and as the manifest's lines.
C8_ThreePagesInDiscoveryOrder ==
    /\ [](AfterSeed => visited = <<seed_target>> /\ queue \in Orderings(SameDomainLinks))
    /\ \A order \in Orderings(SameDomainLinks) :
        [](AfterSeed /\ queue = order =>
            [](AllOk =>
                /\ CrossDomainLink \notin Range(queue)
                /\ CrossDomainLink \notin Range(visited)
                /\ visited \o queue = <<seed_target>> \o order
                /\ pc = "done" =>
                      /\ Len(visited) = 3
                      /\ visited_file = [writes |-> 1, lines |-> visited]))

\* the scenario has run to its end
C8_Witness ==
    /\ pc = "done"
    /\ max_pages = 5
    /\ AllOk
    /\ 1 \in DOMAIN visited /\ visited[1] = seed_target
    /\ Range(visited) = {seed_target} \cup SameDomainLinks
    /\ Len(visited_file.lines) = 3

\* C9: fetch_page sends one request and returns ("ok" with the body) for
\* status 200, "transient" without a body for a status from 500 to 599 and
\* for a request that raised, "permanent" without a body for every other
\* status; whatever the server would answer to a second request plays no part.
C9_FetchPageClassification ==
    pc = "returned" =>
        LET response == server[1]
            code == response.status_code
        IN  /\ requests_sent = 1
            /\ IF ~response.raised /\ code = 200
               THEN status = "ok" /\ html = <<response.text>>
               ELSE IF response.raised \/ code \in 500..599
               THEN status = "transient" /\ html = None
               ELSE status = "permanent" /\ html = None

\* a 503 was answered with "transient" though the next answer would be 200
C9_Witness ==
    /\ pc = "returned"
    /\ Len(server) = 2
    /\ server[1].status_code = 503
    /\ ~server[2].raised /\ server[2].status_code = 200
    /\ status = "transient"
    /\ requests_sent = 1

\* C10: a fetch is made only from a state with a non-empty queue and fewer
\* than max_pages visited URLs; from any other state the loop goes to the
\* manifest step; and the loop has ended only with the queue empty or with
\* max_pages URLs visited.
C10_LoopEndsWhenExhausted ==
    /\ [][requests_sent' # requests_sent =>
            queue # <<>> /\ Len(visited) < max_pages]_vars
    /\ [][pc = "loop" /\ (queue = <<>> \/ Len(visited) = max_pages) =>
            pc' = "done"]_vars
    /\ [](pc = "done" => queue = <<>> \/ Len(visited) = max_pages)

\* the loop has ended on the budget with URLs still queued
C10_Witness ==
    /\ pc = "done"
    /\ queue # <<>>
    /\ Len(visited) = max_pages

\* C11: a target whose page could not be written is not in visited and is
\* in the failed set, and the run goes on to its end: the loop is still
\* running or the manifest and the summary have been written.
C11_WriteFailureIsPermanentFailure ==
    \A u \in write_errors :
        /\ u \notin Range(visited)
        /\ u \notin visited_set
        /\ u \in failed
        /\ pc \in {"loop", "done"}
        /\ pc = "done" => visited_file.writes = 1

\* a fetch_page call has just returned "ok"
SuccessEvent == requests_sent' # requests_sent /\ status' = "ok"

\* C12: the manifest is not written while the loop runs and is written once
\* when the run is done, its lines being visited; and visited is the list
\* of the success events in their order: each success appends its URL to
\* visited and nothing else changes visited.
C12_ManifestOnceInVisitOrder ==
    /\ [](pc = "loop" => visited_file = [writes |-> 0, lines |-> <<>>])
    /\ [](pc = "done" => visited_file = [writes |-> 1, lines |-> visited])
    /\ [][SuccessEvent => visited' = Append(visited, url')]_vars
    /\ [][visited' # visited => SuccessEvent]_vars

\* a manifest of three lines after a run in which a URL failed
C12_Witness ==
    /\ pc = "done"
    /\ visited_file.writes = 1
    /\ Len(visited_file.lines) = 3
    /\ visited_file.lines = visited
    /\ failed # {}

\* C13: the normalisation steps (urljoin against the base, fragment removed,
\* trailing slashes removed, only http and https kept) are idempotent: put
\* through them again, a URL they have given is kept and comes out unchanged.
C13_NormalizationIdempotent ==
    /\ Len(normalized) = 1 => pc # "skipped"
    /\ Len(normalized) = 2 => normalized[2] = normalized[1]

\* C14: once a URL is in failed it is not appended to the queue again and
\* not fetched again, whatever the pages fetched later link to.
C14_FailedIsTerminal ==
    [][\A u \in failed :
          /\ get(fetch_log', u, <<>>) = get(fetch_log, u, <<>>)
          /\ u \in Range(queue') => u \in Range(queue)]_vars

\* a fetch_page call has just been made
FetchEvent == requests_sent' # requests_sent

\* C15: every fetch is of the head of the queue; a pass of the loop takes
\* the head away and adds at the tail only, so that URLs are fetched in
\* the order of their appends; and a URL retried after a transient failure
\* becomes the last of the queue, behind all that was queued then.
C15_StrictFifo ==
    /\ [][FetchEvent =>
            /\ queue # <<>>
            /\ url' = Head(queue)
            /\ fetch_log'[url'] = Append(get(fetch_log, url', <<>>), status')
            /\ \A t \in DOMAIN fetch_log' \ {url'} :
                   t \in DOMAIN fetch_log /\ fetch_log'[t] = fetch_log[t]]_vars
    /\ [][queue' # queue =>
            /\ queue # <<>>
            /\ Len(queue') >= Len(queue) - 1
            /\ SubSeq(queue', 1, Len(queue) - 1) = Tail(queue)]_vars
    /\ [][FetchEvent /\ status' = "transient" /\ url' \notin failed' =>
            queue' = Append(Tail(queue), url')]_vars

\* a retried URL has just been put behind another queued URL
C15_Witness ==
    /\ status = "transient"
    /\ Len(queue) >= 2
    /\ queue[Len(queue)] = url
    /\ url \in DOMAIN retries

\* C16: no URL occurs twice in the queue.
C16_QueueWithoutDuplicates ==
    \A i, j \in DOMAIN queue : queue[i] = queue[j] => i = j

\* a page just fetched links to a URL that waits in the queue for its retry
C16_Witness ==
    /\ status = "ok"
    /\ \E l \in extract_links(html[1], url) : l \in DOMAIN retries /\ l \in Range(queue)

\* the URLs the run has held or fetched
Held == Range(queue) \cup Range(visited) \cup failed \cup DOMAIN fetch_log

\* C17: every URL queued, visited, failed or fetched has the seed's host
\* once lower-cased; the link of another host is in none of these.
C17_SeedDomainOnly ==
    /\ \A u \in Held : domain_of(u) = seed_domain
    /\ \A u \in Held : lower(urlparse(u, <<>>).netloc) = lower(urlparse(seed_url, <<>>).netloc)
    /\ CrossDomainLink \notin Held

\* a URL whose host differs from the seed's by case only has been visited,
\* and the page just fetched links to another host
C17_Witness ==
    /\ \E u \in Range(visited) : urlparse(u, <<>>).netloc # urlparse(seed_url, <<>>).netloc
    /\ status = "ok"
    /\ CrossDomainLink \in extract_links(html[1], url)

\* C18: page_id is always len(visited) + 1; the page files are those of the
\* ids 1..len(visited) and the file of id i holds the page of the i-th
\* visited URL; page_id changes only by a success, by 1, and a fetch that
\* fails leaves it and the files as they were.
C18_PageIdsFollowVisited ==
    /\ [](page_id = Len(visited) + 1)
    /\ [](DOMAIN pages = 1..Len(visited))
    /\ [](\A i \in DOMAIN pages : pages[i] = visited[i])
    /\ [][page_id' # page_id => SuccessEvent /\ page_id' = page_id + 1]_vars
    /\ [][FetchEvent /\ status' \in {"transient", "permanent"} =>
            page_id' = page_id /\ pages' = pages]_vars

\* two pages stored, after fetches that failed for good and for a while
C18_Witness ==
    /\ page_id = 3
    /\ pages = <<visited[1], visited[2]>>
    /\ failed # {}
    /\ retries # <<>>

\* the retry counters kept are between 1 and max_retries, and kept only for
\* URLs that had a transient failure
RetryEntriesWithinLimit ==
    \A u \in DOMAIN retries :
        /\ 1 <= retries[u] /\ retries[u] <= max_retries
        /\ "transient" \in Range(get(fetch_log, u, <<>>))

\* C19: every retry counter kept is between 1 and max_retries and belongs
\* to a URL that had a transient failure; no counter is kept for a URL
\* whose first fetch was a success or a permanent failure.
C19_RetryEntries ==
    /\ RetryEntriesWithinLimit
    /\ \A u \in DOMAIN retries : fetch_log[u][1] = "transient"

\* C20: visited holds no URL twice, visited_set is the set of its
\* elements, no URL is fetched with success twice, and there are as many
\* page files as distinct visited URLs.
C20_VisitedWithoutDuplicates ==
    /\ \A i, j \in DOMAIN visited : visited[i] = visited[j] => i = j
    /\ visited_set = Range(visited)
    /\ \A u \in DOMAIN fetch_log :
           Cardinality({k \in DOMAIN fetch_log[u] : fetch_log[u][k] = "ok"}) <= 1
    /\ Cardinality(DOMAIN pages) = Cardinality(Range(visited))

\* the page just stored links to a URL visited before it
C20_Witness ==
    /\ status = "ok"
    /\ Len(visited) >= 2
    /\ visited[Len(visited)] = url
    /\ \E l \in extract_links(html[1], url) : l \in Range(visited) \ {url}
====
